---- MODULE Spec2Model ----
(***************************************************************************)
(* Model of the SyncEverything extension core: the config locator          *)
(* (getConfigPaths / pathExists / findConfigFile), the profile detector    *)
(* (getActiveProfileInfo), the local profile reader/writer                 *)
(* (getActiveProfile / updateLocalProfile / readConfigFile /               *)
(* writeConfigFile) and the extension reconciler (getExtensions /          *)
(* installExtensions).                                                     *)
(*                                                                         *)
(* The host process is single threaded: one command runs at a time and     *)
(* suspends at its awaits.  Every step between two awaits is one action.   *)
(* The environment (the user switching profile, editing the extension      *)
(* set or the configuration) acts between commands.                        *)
(***************************************************************************)
EXTENDS Integers, Sequences, FiniteSets, TLC

VARIABLES
    host,        \* os.platform(), process.env and os.homedir() of the process
    envAppName,  \* vscode.env.appName
    files,       \* the file system: path -> text, for the files that exist
    wsUri,       \* workspace.workspaceFolders?.[0]?.uri.toString()
    installed,   \* ids of the extensions present in vscode.extensions.all
    excludeList, \* configuration synceverything.excludeExtensions
    confirmBeforeSync, \* configuration synceverything.confirmBeforeSync
    manualPaths, \* context.globalState manualSettingsPath/manualKeybindingsPath
    inst,        \* the SyncEverything instance (appName, activeProfileId, ...)
    pc,          \* position of the running command
    op,          \* the running (or last) command and its argument
    loc,         \* locals of installExtensions
    inflight,    \* executeCommand calls issued and not yet settled
    log,         \* what the running (or last) command did, in order
    result       \* how the last command ended

vars == <<host, envAppName, files, wsUri, installed, excludeList,
          confirmBeforeSync, manualPaths, inst, pc, op, loc, inflight, log,
          result>>

None == "<none>"

Range(s) == {s[i] : i \in 1..Len(s)}

(***************************************************************************)
(* Hosts.  A path is the sequence of its components; the separator         *)
(* ("\\" on win32, "/" elsewhere) is what joins them.  An environment      *)
(* variable is a sequence of components, or <<>> when it is not set.       *)
(***************************************************************************)
DefaultProfileId == "__default__profile__"

HomeDir == <<"home", "u">>
WinProfile == <<"C:", "Users", "u">>

Hosts ==
    { [platform |-> "win32", APPDATA |-> WinProfile \o <<"AppData", "Roaming">>,
       USERPROFILE |-> WinProfile, HOME |-> <<>>, XDG_CONFIG_HOME |-> <<>>,
       homedir |-> WinProfile],
      [platform |-> "darwin", APPDATA |-> <<>>, USERPROFILE |-> <<>>,
       HOME |-> HomeDir, XDG_CONFIG_HOME |-> <<>>, homedir |-> HomeDir],
      [platform |-> "linux", APPDATA |-> <<>>, USERPROFILE |-> <<>>,
       HOME |-> HomeDir, XDG_CONFIG_HOME |-> <<>>, homedir |-> HomeDir],
      [platform |-> "linux", APPDATA |-> <<>>, USERPROFILE |-> <<>>,
       HOME |-> HomeDir, XDG_CONFIG_HOME |-> <<"xdg">>, homedir |-> HomeDir] }

\* `${process.env.X}`: an unset variable prints as "undefined"
EnvStr(v) == IF v = <<>> THEN <<"undefined">> ELSE v

\* utils.ts: the base folder of getConfigPaths' profile path and getStoragePath
BaseFolder(h) ==
    IF h.platform = "win32" THEN EnvStr(h.APPDATA)
    ELSE IF h.platform = "darwin"
         THEN EnvStr(h.HOME) \o <<"Library", "Application Support">>
         ELSE EnvStr(h.HOME) \o <<".config">>

\* a JavaScript string used as a condition: null, undefined and "" are falsy
Truthy(str) == str # None /\ str # ""

ProfilePath(h, appName, profileId, file) ==
    BaseFolder(h) \o <<appName, "User", "profiles", profileId, file>>

DefaultPaths(h, appName, file) ==
    CASE h.platform = "win32" ->
           << EnvStr(h.APPDATA) \o <<appName, "User", file>>,
              EnvStr(h.USERPROFILE) \o <<"AppData", "Roaming", appName, "User", file>> >>
      [] h.platform = "darwin" ->
           << EnvStr(h.HOME) \o <<"Library", "Application Support", appName, "User", file>>,
              h.homedir \o <<"Library", "Application Support", appName, "User", file>> >>
      [] OTHER ->
           << EnvStr(h.HOME) \o <<".config", appName, "User", file>>,
              (IF h.XDG_CONFIG_HOME # <<>> THEN h.XDG_CONFIG_HOME
               ELSE h.homedir \o <<".config">>) \o <<appName, "User", file>>,
              h.homedir \o <<".config", appName, "User", file>> >>

\* a plausible slip: the profile path appended after the default paths
GetConfigPathsAppended(h, appName, file, profileId) ==
    DefaultPaths(h, appName, file) \o
    (IF Truthy(profileId) /\ profileId # DefaultProfileId
     THEN <<ProfilePath(h, appName, profileId, file)>> ELSE <<>>)

getConfigPaths(h, appName, file, profileId) ==
    (IF Truthy(profileId) /\ profileId # DefaultProfileId
     THEN <<ProfilePath(h, appName, profileId, file)>> ELSE <<>>)
    \o DefaultPaths(h, appName, file)

\* workspace.fs.stat succeeds exactly on what exists; nothing is changed
pathExists(fs, path) == path \in DOMAIN fs

\* a plausible slip: every candidate is probed and the last existing one kept
ProbeKeepLast(fs, paths, i) ==
    LET ex == {j \in i..Len(paths) : pathExists(fs, paths[j])} IN
    IF ex = {} THEN [probed |-> paths, found |-> FALSE, path |-> <<>>]
    ELSE [probed |-> paths, found |-> TRUE,
          path |-> paths[CHOOSE j \in ex : \A k \in ex : k <= j]]

\* findConfigFile's loop from candidate i on: the candidates probed so far and
\* the first one found (found is FALSE when the loop runs out and FileNotFound
\* is thrown).  The path returned, Uri.file(path).fsPath, names the candidate.
RECURSIVE ProbeFrom(_, _, _)
ProbeFrom(fs, paths, i) ==
    IF i > Len(paths) THEN [probed |-> paths, found |-> FALSE, path |-> <<>>]
    ELSE IF pathExists(fs, paths[i])
         THEN [probed |-> SubSeq(paths, 1, i), found |-> TRUE, path |-> paths[i]]
         ELSE ProbeFrom(fs, paths, i + 1)

findConfigFile(h, fs, appName, file, profileId) ==
    ProbeFrom(fs, getConfigPaths(h, appName, file, profileId), 1)

getStoragePath(h, appName) ==
    BaseFolder(h) \o <<appName, "User", "globalStorage", "storage.json">>

(***************************************************************************)
(* File contents.  A text is what JSON5.parse makes of it: ok says whether *)
(* it parses, val is the parsed value, comments whether the text holds     *)
(* comments (relaxed JSON), indent the width of its indentation.  The      *)
(* values are those of the editor's own files, which JSON can represent.   *)
(* JSON.stringify(v, null, 2) is strict JSON indented by two spaces.       *)
(***************************************************************************)
Text(v, c) == [ok |-> TRUE, val |-> v, comments |-> c, indent |-> 4]
Garbage == [ok |-> FALSE, val |-> "", comments |-> FALSE, indent |-> 0]

\* what workspace.fs.stat finds where a directory was created
Directory == [ok |-> FALSE, val |-> "<directory>", comments |-> FALSE, indent |-> 0]

JSON5parse(text) == [ok |-> text.ok, val |-> text.val]

\* a plausible slip: the text read is written back as it was
StringifyVerbatim(v) == Text(v, TRUE)

JSONstringify(v) == [Text(v, FALSE) EXCEPT !.indent = 2]

(***************************************************************************)
(* Profile detector.  The value parsed from storage.json is an object or   *)
(* not (null, a number, ...); an object has the optional                   *)
(* profileAssociations.workspaces (uri -> profile id, "" for no entry) and *)
(* the optional userDataProfiles, which is a list or something else.       *)
(***************************************************************************)
WsUris == {"file:///w1"}
ProfileIds == {"p1"}

Descriptor(hasWs, ws, hasProfiles, profiles) ==
    [isObject |-> TRUE, hasWs |-> hasWs, ws |-> ws, hasProfiles |-> hasProfiles,
     profilesIsArray |-> TRUE, profiles |-> profiles]

DefaultIdentity == [id |-> DefaultProfileId, name |-> "Default"]

\* what the caller would see if getActiveProfileInfo's promise were rejected
Rejected == [id |-> "<rejected>", name |-> "<rejected>"]

\* userDataProfiles?.find(p => p.location === profileId)?.name || profileId
RECURSIVE FindName(_, _, _)
FindName(profiles, i, profileId) ==
    IF i > Len(profiles) THEN profileId
    ELSE IF profiles[i].location = profileId
         THEN (IF Truthy(profiles[i].name) THEN profiles[i].name ELSE profileId)
         ELSE FindName(profiles, i + 1, profileId)

\* storage.profileAssociations.workspaces[workspaceUri]: "" when there is no entry
Association(storage, uri) ==
    IF storage.hasWs /\ Truthy(uri) /\ uri \in DOMAIN storage.ws THEN storage.ws[uri] ELSE ""

\* the try block of getActiveProfileInfo, once storage.json is known to exist:
\* readFile or JSON5.parse throws, reading a property of null throws, and
\* calling find on something that is not a list throws
DetectFrom(text, uri, readOk) ==
    IF ~readOk \/ ~text.ok \/ ~text.val.isObject
    THEN [threw |-> TRUE, value |-> DefaultIdentity]
    ELSE LET storage == text.val
             profileId == Association(storage, uri)
         IN IF ~Truthy(profileId) THEN [threw |-> FALSE, value |-> DefaultIdentity]
            ELSE IF storage.hasProfiles /\ ~storage.profilesIsArray
            THEN [threw |-> TRUE, value |-> DefaultIdentity]
            ELSE [threw |-> FALSE,
                  value |-> [id |-> profileId,
                             name |-> IF storage.hasProfiles
                                      THEN FindName(storage.profiles, 1, profileId)
                                      ELSE profileId]]

\* a plausible slip: the try block has no catch
CaughtNever(threw) == FALSE

\* getActiveProfileInfo's catch block takes whatever the try block throws
Caught(threw) == threw

\* readOk: whether readFile(storagePath) succeeds on an existing file
getActiveProfileInfo(h, fs, uri, appName, readOk) ==
    LET storagePath == getStoragePath(h, appName) IN
    IF ~pathExists(fs, storagePath) THEN DefaultIdentity
    ELSE LET body == DetectFrom(fs[storagePath], uri, readOk) IN
         IF ~body.threw THEN body.value
         ELSE IF Caught(body.threw) THEN DefaultIdentity ELSE Rejected

(***************************************************************************)
(* Application identity.  env.appName is the sequence of its words;        *)
(* includes(w) asks whether w is one of them.                              *)
(***************************************************************************)
EnvAppNames ==
    { <<"Visual", "Studio", "Code">>, <<"Visual", "Studio", "Code", "-", "Insiders">>,
      <<"Cursor">>, <<"Trae">>, <<"Antigravity">> }

Includes(name, w) == w \in Range(name)

\* SyncEverything.initialize: the appName kept on the instance
AppNameOf(name) ==
    IF Includes(name, "Antigravity") THEN "Antigravity"
    ELSE IF Includes(name, "Trae") THEN "Trae"
    ELSE IF Includes(name, "Code")
         THEN (IF Includes(name, "Insiders") THEN "Code - Insiders" ELSE "Code")
         ELSE "Cursor"

\* SyncEverything.createNewProfileFromSync: the appName it derives for itself
CreateAppName(name) ==
    IF Includes(name, "Antigravity") THEN "Antigravity"
    ELSE IF Includes(name, "Trae") THEN "Trae"
    ELSE IF Includes(name, "Code") THEN "Code"
    ELSE "Cursor"

(***************************************************************************)
(* Extensions.  vscode.extensions.all lists the built-in extensions and    *)
(* the installed ones, in registry order.                                  *)
(***************************************************************************)
ExtOrder == <<"a", "b", "c", "git">>
BuiltinIds == {"git"}
UserIds == Range(ExtOrder) \ BuiltinIds

MaxRemoteLen == 2

RECURSIVE SeqsUpTo(_, _)
SeqsUpTo(S, n) ==
    IF n = 0 THEN {<<>>}
    ELSE LET shorter == SeqsUpTo(S, n - 1) IN
         shorter \cup {Append(q, x) : q \in {r \in shorter : Len(r) = n - 1}, x \in S}

RemoteLists == SeqsUpTo(Range(ExtOrder), MaxRemoteLen)
ExcludeLists == {<<>>, <<"a">>}

extensionsAll(inst_) ==
    LET present == SelectSeq(ExtOrder, LAMBDA id : id \in inst_ \cup BuiltinIds) IN
    [i \in 1..Len(present) |-> [id |-> present[i], isBuiltin |-> present[i] \in BuiltinIds]]

\* a plausible slip: the exclusion list is not applied
GetExtensionsNoExclude(all, exclude) ==
    LET user == SelectSeq(all, LAMBDA ext : ~ext.isBuiltin) IN
    [i \in 1..Len(user) |-> user[i].id]

getExtensions(all, exclude) ==
    LET user == SelectSeq(all, LAMBDA ext : ~ext.isBuiltin)
        ids == [i \in 1..Len(user) |-> user[i].id]
    IN SelectSeq(ids, LAMBDA id : id \notin Range(exclude))

\* a plausible slip: the wrong set is consulted
ToInstallAll(remoteList, localList) ==
    SelectSeq(remoteList, LAMBDA id : id \notin Range(remoteList) \ Range(localList))

\* installExtensions: remoteList.filter(id => !localSet.has(id))
ToInstall(remoteList, localList) ==
    SelectSeq(remoteList, LAMBDA id : id \notin Range(localList))

\* a plausible slip: every local extension is removed
ToDeleteAll(remoteList, localList) == localList

\* installExtensions: localList.filter(id => !remoteSet.has(id))
ToDelete(remoteList, localList) ==
    SelectSeq(localList, LAMBDA id : id \notin Range(remoteList))

Act(kind, id) == [kind |-> kind, id |-> id]

\* a plausible slip: the installation loop placed before the deletion loop
BatchInstallFirst(toDelete, toInstall) ==
    [i \in 1..Len(toInstall) |-> Act("install", toInstall[i])]
    \o [i \in 1..Len(toDelete) |-> Act("uninstall", toDelete[i])]

\* the two loops of the withProgress callback, in the order they run
Batch(toDelete, toInstall) ==
    [i \in 1..Len(toDelete) |-> Act("uninstall", toDelete[i])]
    \o [i \in 1..Len(toInstall) |-> Act("install", toInstall[i])]

\* the extension registry after a command that succeeded
Applied(inst_, act) ==
    IF act.id \in BuiltinIds THEN inst_
    ELSE IF act.kind = "install" THEN inst_ \cup {act.id} ELSE inst_ \ {act.id}

Ev(e, kind, id, path, ok, n) ==
    [e |-> e, kind |-> kind, id |-> id, path |-> path, ok |-> ok, n |-> n]
Msg(e) == Ev(e, "", "", <<>>, TRUE, 0)

NoInstance == [made |-> FALSE, appName |-> "", activeProfileId |-> None,
               activeProfileName |-> None]

NoLoc == [remoteList |-> <<>>, localList |-> <<>>, toInstall |-> <<>>, toDelete |-> <<>>,
          idx |-> 0, completed |-> 0, needsReload |-> FALSE]

(***************************************************************************)
(* Commands.  op names the running command, its argument, the local state  *)
(* it started from, and whether it repeats the command before it with no   *)
(* local change in between.                                                *)
(***************************************************************************)
\* a settings or keybindings field of a profile: a string or a structured value
Structured(v) == [isString |-> FALSE, str |-> Garbage, val |-> v]
RawString(text) == [isString |-> TRUE, str |-> text, val |-> ""]

NoProfile == [settings |-> Structured(""), keybindings |-> Structured(""),
              extensions |-> <<>>]
NoSnapshot == [settings |-> [ok |-> FALSE, val |-> ""],
               keybindings |-> [ok |-> FALSE, val |-> ""],
               extensions |-> <<>>, sourceAppName |-> "",
               sourceProfileId |-> "", sourceProfileName |-> ""]

Res(status) == [status |-> status, returned |-> FALSE, snapshot |-> NoSnapshot,
                path |-> <<>>]

\* where installExtensions returns to
AfterInstall(name) == IF name = "createNewProfileFromSync" THEN "register" ELSE "done"

ReturnFromInstall(name, lg, infl) ==
    /\ pc' = AfterInstall(name)
    /\ result' = IF AfterInstall(name) = "done" THEN Res("ok") ELSE result
    /\ log' = lg
    /\ inflight' = infl

\* a plausible slip: a failed command leaves the loops (no try/catch around it)
NextIndexAbort(l, ok) ==
    IF ok THEN l.idx + 1 ELSE Len(Batch(l.toDelete, l.toInstall)) + 1

\* the catch blocks of the two loops: the next iteration runs either way
NextIndex(l, ok) == l.idx + 1

\* progress.report's increment, (++completed / total) * 100, as the integer
\* increment * total; completed is the counter after ++
IncrementTimesTotal(completed) == completed * 100

\* the withProgress callback from batch position l.idx on, up to its next
\* await, and what follows it when the loops are over
RunBatchFrom(name, l, lg, infl) ==
    LET batch == Batch(l.toDelete, l.toInstall) IN
    IF l.idx <= Len(batch)
    THEN /\ pc' = "await"
         /\ loc' = [l EXCEPT !.completed = @ + 1]
         /\ inflight' = infl \cup {batch[l.idx]}
         /\ log' = lg \o <<Ev("issue", batch[l.idx].kind, batch[l.idx].id, <<>>, TRUE,
                              l.completed + 1)>>
         /\ result' = result
    ELSE /\ loc' = l
         /\ IF l.needsReload
            THEN /\ pc' = "reload"
                 /\ log' = lg \o <<Msg("reloadPrompt")>>
                 /\ inflight' = infl
                 /\ result' = result
            ELSE ReturnFromInstall(name, lg, infl)

\* installExtensions(remoteList) from its first line up to its first await
EnterInstallExtensions(name, remoteList, lg) ==
    LET localList == getExtensions(extensionsAll(installed), excludeList)
        toInstall == ToInstall(remoteList, localList)
        toDelete == ToDelete(remoteList, localList)
        l == [remoteList |-> remoteList, localList |-> localList,
              toInstall |-> toInstall, toDelete |-> toDelete,
              idx |-> 1, completed |-> 0, needsReload |-> FALSE]
    IN IF Len(toInstall) = 0 /\ Len(toDelete) = 0
       THEN /\ loc' = l
            /\ ReturnFromInstall(name, lg \o <<Msg("inSync")>>, inflight)
       ELSE IF confirmBeforeSync
            THEN /\ loc' = l
                 /\ pc' = "confirm"
                 /\ log' = lg \o <<Msg("confirmPrompt")>>
                 /\ UNCHANGED <<inflight, result>>
            ELSE RunBatchFrom(name, l, lg, inflight)

ConfirmAnswers == {"Yes", "Show Details", "Cancel", None}
ReloadAnswers == {"Reload", "Later", None}

env == <<host, envAppName, wsUri, excludeList, confirmBeforeSync, manualPaths>>

\* a plausible slip: only an explicit "Cancel" stops the sync
ProceedsUnlessCancel(action) == action # "Cancel"

\* installExtensions: if (action !== "Yes") return
Proceeds(action) == action = "Yes"

\* the user answers the modal "Sync will ... Continue?" warning
AnswerConfirm(action) ==
    /\ pc = "confirm"
    /\ LET lg == log \o <<Ev("confirmAnswer", action, "", <<>>, TRUE, 0)>> IN
       IF action = "Show Details"
       THEN /\ pc' = "details"
            /\ log' = lg \o <<Msg("detailsPrompt")>>
            /\ UNCHANGED <<loc, inflight, result>>
       ELSE IF ~Proceeds(action)
            THEN /\ ReturnFromInstall(op.name, lg, inflight)
                 /\ UNCHANGED loc
            ELSE RunBatchFrom(op.name, loc, lg, inflight)
    /\ UNCHANGED <<env, files, installed, inst, op>>

\* the user closes the detail view; installExtensions returns
CloseDetails ==
    /\ pc = "details"
    /\ ReturnFromInstall(op.name, log, inflight)
    /\ UNCHANGED <<env, files, installed, inst, op, loc>>

\* a plausible slip: needsReload set before the command is awaited
NeedsReloadAlways(l, ok) == TRUE

\* needsReload = true follows the awaited command inside the try block
NeedsReload(l, ok) == l.needsReload \/ ok

\* the awaited install/uninstall command settles, and the loop goes on
SettleAction(ok) ==
    /\ pc = "await"
    /\ LET act == Batch(loc.toDelete, loc.toInstall)[loc.idx] IN
       /\ installed' = IF ok THEN Applied(installed, act) ELSE installed
       /\ RunBatchFrom(op.name, [loc EXCEPT !.idx = NextIndex(loc, ok),
                                  !.needsReload = NeedsReload(loc, ok)],
                       log \o <<Ev("settle", act.kind, act.id, <<>>, ok, 0)>>,
                       inflight \ {act})
    /\ UNCHANGED <<env, files, inst, op>>

\* the user answers "Reload window to apply all changes?"
AnswerReload(reload) ==
    /\ pc = "reload"
    /\ ReturnFromInstall(op.name, log \o <<Ev("reloadAnswer", reload, "", <<>>, TRUE, 0)>>
                         \o (IF reload = "Reload" THEN <<Msg("reloadWindow")>> ELSE <<>>),
                         inflight)
    /\ UNCHANGED <<env, files, installed, inst, op, loc>>

(***************************************************************************)
(* SpecReconcile: installExtensions on its own, called with any remote     *)
(* list on any extension registry and configuration.                       *)
(***************************************************************************)
LinuxHost == CHOOSE h \in Hosts : h.platform = "linux" /\ h.XDG_CONFIG_HOME = <<>>

\* profileId, profileName: the new profile of createNewProfileFromSync;
\* captured: the files getActiveProfile read for the snapshot being applied;
\* files0, installed0: the local state the command starts from; repeat: it is
\* the command before it called again with nothing in between, prevDone: that
\* one returned normally (prevOk), its reconciliation ran to its end
\* (prevDone), with so many install/uninstall commands (prevActions)
Op(name, profile) ==
    [name |-> name, profile |-> profile, file |-> "", profileId |-> "",
     profileName |-> "", captured |-> <<>>,
     files0 |-> files, installed0 |-> installed,
     repeat |-> FALSE, prevOk |-> FALSE, prevDone |-> FALSE, prevActions |-> 0]
NoOp == [name |-> "", profile |-> NoProfile, file |-> "", profileId |-> "",
         profileName |-> "", captured |-> <<>>,
         files0 |-> <<>>, installed0 |-> {},
         repeat |-> FALSE, prevOk |-> FALSE, prevDone |-> FALSE, prevActions |-> 0]

InitReconcile ==
    /\ host = LinuxHost
    /\ envAppName = <<"Visual", "Studio", "Code">>
    /\ files = <<>>
    /\ wsUri = ""
    /\ installed \in SUBSET UserIds
    /\ excludeList \in ExcludeLists
    /\ confirmBeforeSync \in BOOLEAN
    /\ manualPaths = [settings |-> <<>>, keybindings |-> <<>>]
    /\ inst = NoInstance
    /\ pc = "idle"
    /\ op = NoOp
    /\ loc = NoLoc
    /\ inflight = {}
    /\ log = <<>>
    /\ result = Res("")

CallInstallExtensions(remoteList) ==
    /\ pc = "idle"
    /\ op' = [Op("installExtensions", NoProfile) EXCEPT !.files0 = <<>>]
    /\ EnterInstallExtensions("installExtensions", remoteList, <<>>)
    /\ UNCHANGED <<env, files, installed, inst>>

\* the command's promise has settled and the host is ready for the next one
Dismiss ==
    /\ pc = "done"
    /\ pc' = "idle"
    /\ op' = NoOp
    /\ loc' = NoLoc
    /\ log' = <<>>
    /\ result' = Res("")
    /\ UNCHANGED <<env, files, installed, inst, inflight>>

NextReconcile ==
    \/ Dismiss
    \/ \E remoteList \in RemoteLists : CallInstallExtensions(remoteList)
    \/ \E action \in ConfirmAnswers : AnswerConfirm(action)
    \/ CloseDetails
    \/ \E ok \in BOOLEAN : SettleAction(ok)
    \/ \E reload \in ReloadAnswers : AnswerReload(reload)

SpecReconcile == InitReconcile /\ [][NextReconcile]_vars

(***************************************************************************)
(* The instance and its commands                                           *)
(***************************************************************************)
ConfigFiles == [settings |-> "settings.json", keybindings |-> "keybindings.json"]

\* the files the user can choose in the open dialog of setManualPath
CustomDir == <<"home", "u", "dotfiles">>
ManualChoice(t) == CustomDir \o <<ConfigFiles[t]>>

Probes(paths, fs) ==
    [i \in 1..Len(paths) |-> Ev("probe", "", "", paths[i], pathExists(fs, paths[i]), 0)]

\* SyncEverything.initialize, with the user's choices in the two open dialogs
\* (<<>>: the dialog is cancelled) and whether storage.json can be read
Initialize(readOk, pickS, pickK) ==
    /\ pc = "idle" /\ ~inst.made
    /\ LET appName == AppNameOf(envAppName)
           info == getActiveProfileInfo(host, files, wsUri, appName, readOk)
           s == findConfigFile(host, files, appName, "settings.json", info.id)
           k == findConfigFile(host, files, appName, "keybindings.json", info.id)
           made == [made |-> TRUE, appName |-> appName, activeProfileId |-> info.id,
                    activeProfileName |-> info.name]
       IN IF s.found /\ k.found
          THEN /\ inst' = made
               /\ pickS = <<>> /\ pickK = <<>>
               /\ UNCHANGED manualPaths
          ELSE IF pickS = <<>> \/ pickK = <<>>
               THEN /\ pickS = <<>> => pickK = <<>>
                    /\ UNCHANGED <<inst, manualPaths>>       \* return undefined
               ELSE /\ inst' = made
                    /\ manualPaths' = [settings |-> pickS, keybindings |-> pickK]
    /\ UNCHANGED <<host, envAppName, files, wsUri, installed, excludeList,
                   confirmBeforeSync, pc, op, loc, inflight, log, result>>

\* readConfigFile(t): the path it settles on, what it reads, and its log
readConfigFile(me, t, readOk) ==
    LET manualPath == manualPaths[t]
        f == findConfigFile(host, files, me.appName, ConfigFiles[t], me.activeProfileId)
        located == manualPath # <<>> \/ f.found
        path == IF manualPath # <<>> THEN manualPath ELSE f.path
        probes == IF manualPath # <<>> THEN <<>> ELSE Probes(f.probed, files)
        parsed == IF located /\ readOk /\ pathExists(files, path)
                  THEN JSON5parse(files[path]) ELSE [ok |-> FALSE, val |-> ""]
    IN [value |-> IF parsed.ok THEN parsed ELSE [ok |-> FALSE, val |-> ""],
        log |-> probes
                \o (IF located THEN <<Ev("read", t, "", path, parsed.ok, 0)>> ELSE <<>>)
                \o (IF parsed.ok THEN <<>> ELSE <<Ev("error", t, "", path, FALSE, 0)>>)]

\* SyncEverything.getActiveProfile
GetActiveProfile(detectOk, readS, readK) ==
    /\ pc = "idle" /\ inst.made
    /\ LET info == getActiveProfileInfo(host, files, wsUri, inst.appName, detectOk)
           me == [inst EXCEPT !.activeProfileId = info.id, !.activeProfileName = info.name]
       IN /\ inst' = me
          /\ op' = Op("getActiveProfile", NoProfile)
          /\ LET settings == readConfigFile(me, "settings", readS)
                 keybinds == readConfigFile(me, "keybindings", readK)
             IN /\ log' = settings.log \o keybinds.log
                /\ result' = [status |-> "ok", returned |-> TRUE, path |-> <<>>,
                              snapshot |->
                                [settings |-> settings.value,
                                 keybindings |-> keybinds.value,
                                 extensions |-> getExtensions(extensionsAll(installed), excludeList),
                                 sourceAppName |-> me.appName,
                                 sourceProfileId |-> me.activeProfileId,
                                 sourceProfileName |-> me.activeProfileName]]
    /\ pc' = "done"
    /\ UNCHANGED <<env, files, installed, loc, inflight>>

\* writeConfigFile: typeof data === "string" ? data : JSON.stringify(data, null, 2)
WriteContent(data) == IF data.isString THEN data.str ELSE JSONstringify(data.val)

\* a plausible slip: writeConfigFile logs the failure without rethrowing it
ThrowsNever(ok) == FALSE

\* writeConfigFile's catch block: the failure is logged and thrown again
Throws(ok) == ~ok

\* updateLocalProfile(profile) from its first line up to the first await that
\* waits for the user; okS, okK: whether the file system accepts each write
ULPBody(profile, okS, okK) ==
    LET s == findConfigFile(host, files, inst.appName, "settings.json", inst.activeProfileId)
        lgS == Probes(s.probed, files)
        files1 == IF s.found /\ okS
                  THEN [p \in DOMAIN files |->
                          IF p = s.path THEN WriteContent(profile.settings) ELSE files[p]]
                  ELSE files
        k == findConfigFile(host, files1, inst.appName, "keybindings.json",
                            inst.activeProfileId)
        lgK == lgS \o <<Ev("write", "settings", "", s.path, okS, 0)>> \o Probes(k.probed, files1)
        files2 == IF k.found /\ okK
                  THEN [p \in DOMAIN files1 |->
                          IF p = k.path THEN WriteContent(profile.keybindings) ELSE files1[p]]
                  ELSE files1
        lgI == lgK \o <<Ev("write", "keybindings", "", k.path, okK, 0)>>
        failed(lg, path) ==
            /\ pc' = "done"
            /\ result' = Res("error")
            /\ log' = lg \o <<Ev("error", "", "", path, FALSE, 0)>>
            /\ loc' = NoLoc
            /\ UNCHANGED inflight
    IN IF ~s.found
       THEN files' = files /\ failed(lgS, <<>>)
       ELSE IF Throws(okS)
       THEN files' = files1 /\ failed(lgS \o <<Ev("write", "settings", "", s.path, okS, 0)>>, s.path)
       ELSE IF ~k.found
       THEN files' = files1 /\ failed(lgK, <<>>)
       ELSE IF Throws(okK)
       THEN files' = files2 /\ failed(lgI, k.path)
       ELSE /\ files' = files2
            /\ EnterInstallExtensions("updateLocalProfile", profile.extensions, lgI)

\* SyncEverything.updateLocalProfile
UpdateLocalProfile(profile, okS, okK) ==
    /\ pc = "idle" /\ inst.made
    /\ op' = Op("updateLocalProfile", profile)
    /\ ULPBody(profile, okS, okK)
    /\ UNCHANGED <<env, installed, inst>>

\* updateLocalProfile called with the snapshot getActiveProfile has just
\* returned, when both of its files were read
UpdateLocalProfileFromCapture(okS, okK) ==
    /\ pc = "done" /\ op.name = "getActiveProfile" /\ result.returned
    /\ result.snapshot.settings.ok /\ result.snapshot.keybindings.ok
    /\ LET profile == [settings |-> Structured(result.snapshot.settings.val),
                       keybindings |-> Structured(result.snapshot.keybindings.val),
                       extensions |-> result.snapshot.extensions]
       IN /\ op' = [Op("updateLocalProfile", profile) EXCEPT
                       !.captured = SelectSeq(log, LAMBDA x : x.e = "read")]
          /\ ULPBody(profile, okS, okK)
    /\ UNCHANGED <<env, installed, inst>>

\* the reconciliation of the command that has just ended ran to its end:
\* it was not declined and none of its install/uninstall commands failed
ReconcileCarriedOut ==
    /\ result.status = "ok"
    /\ \A i \in 1..Len(log) :
          /\ log[i].e = "confirmAnswer" => log[i].kind = "Yes"
          /\ log[i].e = "settle" => log[i].ok

\* the same updateLocalProfile(profile) called again right after it ended
RepeatUpdateLocalProfile(okS, okK) ==
    /\ pc = "done" /\ op.name = "updateLocalProfile" /\ ~op.repeat
    /\ op' = [Op("updateLocalProfile", op.profile) EXCEPT
                 !.repeat = TRUE, !.prevOk = (result.status = "ok"),
                 !.prevDone = ReconcileCarriedOut,
                 !.prevActions = Cardinality({i \in 1..Len(log) : log[i].e = "settle"})]
    /\ ULPBody(op.profile, okS, okK)
    /\ UNCHANGED <<env, installed, inst>>

\* the user switches the editor to another profile for this workspace (the
\* editor records the association in storage.json); "" is the default profile
SwitchProfile(profileId) ==
    /\ pc = "idle"
    /\ Truthy(wsUri)
    /\ LET storagePath == getStoragePath(host, AppNameOf(envAppName))
           fresh == Descriptor(TRUE, [u \in WsUris |-> ""], TRUE,
                               <<[location |-> "p1", name |-> "Work"]>>)
           old == IF pathExists(files, storagePath) /\ files[storagePath].ok
                  THEN files[storagePath].val ELSE fresh
           new == [old EXCEPT !.hasWs = TRUE, !.ws[wsUri] = profileId]
       IN /\ old.ws[wsUri] # profileId
          /\ files' = [q \in DOMAIN files \cup {storagePath} |->
                         IF q = storagePath THEN Text(new, FALSE) ELSE files[q]]
    /\ UNCHANGED <<host, envAppName, wsUri, installed, excludeList, confirmBeforeSync,
                   manualPaths, inst, pc, op, loc, inflight, log, result>>

(***************************************************************************)
(* createNewProfileFromSync and registerProfileInStorage                   *)
(***************************************************************************)
\* the answers to "Enter name for the new profile": None when the input box
\* is cancelled; "" is what the code's own test !profileName also covers
ProfileNames == {None, "", "Work2"}

\* generateProfileId(): eight random hexadecimal digits
NewIds == {"n1"}

NewProfileDir(profileId) ==
    BaseFolder(host) \o <<CreateAppName(envAppName), "User", "profiles", profileId>>

\* workspace.fs.writeFile / createDirectory: the path exists afterwards
WriteFile(fs, path, text) ==
    [q \in DOMAIN fs \cup {path} |-> IF q = path THEN text ELSE fs[q]]

\* SyncEverything.createNewProfileFromSync up to its input box; the model
\* follows a session until the ids of NewIds are used up
CreateNewProfileFromSync(profile) ==
    /\ pc = "idle" /\ inst.made
    /\ \E profileId \in NewIds : ~pathExists(files, NewProfileDir(profileId))
    /\ op' = Op("createNewProfileFromSync", profile)
    /\ pc' = "name"
    /\ log' = <<Msg("namePrompt")>>
    /\ UNCHANGED <<env, files, installed, inst, loc, inflight, result>>

\* the input box is answered; steps 2 to 5 run, then installExtensions up to
\* its first await.  okDir, okS, okK: whether the file system accepts the
\* directory and the two files
AnswerName(profileName, profileId, okDir, okS, okK) ==
    /\ pc = "name"
    /\ LET lg0 == log \o <<Ev("nameAnswer", profileName, "", <<>>, TRUE, 0)>>
           dir == NewProfileDir(profileId)
           settingsPath == dir \o <<"settings.json">>
           keybindingsPath == dir \o <<"keybindings.json">>
           files1 == IF okDir THEN WriteFile(files, dir, Directory) ELSE files
           lg1 == lg0 \o <<Ev("mkdir", "", profileId, dir, okDir, 0)>>
           files2 == IF okS THEN WriteFile(files1, settingsPath, WriteContent(op.profile.settings))
                     ELSE files1
           lg2 == lg1 \o <<Ev("write", "settings", "", settingsPath, okS, 0)>>
           files3 == IF okK
                     THEN WriteFile(files2, keybindingsPath, WriteContent(op.profile.keybindings))
                     ELSE files2
           lg3 == lg2 \o <<Ev("write", "keybindings", "", keybindingsPath, okK, 0)>>
           failed(lg, path) ==
               /\ pc' = "done"
               /\ result' = Res("error")
               /\ log' = lg \o <<Ev("error", "", "", path, FALSE, 0)>>
               /\ UNCHANGED <<loc, inflight>>
       IN IF ~Truthy(profileName)
          THEN /\ pc' = "done"
               /\ result' = Res("ok")
               /\ log' = lg0 \o <<Msg("cancelled")>>
               /\ UNCHANGED <<files, op, loc, inflight>>
          ELSE /\ ~pathExists(files, dir)
               /\ op' = [op EXCEPT !.profileId = profileId, !.profileName = profileName]
               /\ IF ~okDir THEN files' = files /\ failed(lg1, dir)
                  ELSE IF Throws(okS) THEN files' = files1 /\ failed(lg2, settingsPath)
                  ELSE IF Throws(okK) THEN files' = files2 /\ failed(lg3, keybindingsPath)
                  ELSE /\ files' = files3
                       /\ EnterInstallExtensions("createNewProfileFromSync",
                                                 op.profile.extensions, lg3)
    /\ UNCHANGED <<env, installed, inst>>

\* a plausible slip: the new record replaces the list
RegisterReplace(profiles, record) == <<record>>

\* storage.userDataProfiles.push({location, name})
RegisterAppend(profiles, record) == Append(profiles, record)

\* a plausible slip: registerProfileInStorage lets its failure through
RegistrationThrowsOnFailure(failed) == failed

\* registerProfileInStorage's catch block warns and returns
RegistrationThrows(failed) == FALSE

\* registerProfileInStorage's try block on the text of storage.json
RegisterIn(text, readOk, record) ==
    IF ~readOk \/ ~text.ok THEN [threw |-> TRUE, value |-> text]
    ELSE IF ~text.val.isObject THEN [threw |-> TRUE, value |-> text]
    ELSE IF text.val.hasProfiles /\ ~text.val.profilesIsArray
    THEN [threw |-> TRUE, value |-> text]
    ELSE [threw |-> FALSE,
          value |-> JSONstringify(
                      [text.val EXCEPT
                         !.hasProfiles = TRUE,
                         !.profiles = RegisterAppend(IF text.val.hasProfiles
                                                     THEN text.val.profiles ELSE <<>>,
                                                     record)])]

\* installExtensions has returned: step 7 and the end of
\* createNewProfileFromSync.  readOk, writeOk: whether storage.json can be
\* read and written
Register(readOk, writeOk) ==
    /\ pc = "register"
    /\ LET storagePath == getStoragePath(host, CreateAppName(envAppName))
           record == [location |-> op.profileId, name |-> op.profileName]
           body == IF pathExists(files, storagePath)
                   THEN RegisterIn(files[storagePath], readOk, record)
                   ELSE [threw |-> TRUE, value |-> Garbage]
           failed == body.threw \/ ~writeOk
           lg == log \o <<Ev("register", "", op.profileId, storagePath, ~failed, 0)>>
                     \o (IF failed THEN <<Msg("warn")>> ELSE <<>>)
       IN /\ files' = IF failed THEN files ELSE WriteFile(files, storagePath, body.value)
          /\ IF RegistrationThrows(failed)
             THEN /\ result' = Res("error")
                  /\ log' = lg \o <<Ev("error", "", "", storagePath, FALSE, 0)>>
             ELSE /\ result' = Res("ok")
                  /\ log' = lg \o <<Msg("created")>>
    /\ pc' = "done"
    /\ UNCHANGED <<env, installed, inst, op, loc, inflight>>

(***************************************************************************)
(* Spec: one editor session.  The config files of the default profile and  *)
(* of profile p1 exist or not; the user's own copies exist in CustomDir.   *)
(***************************************************************************)
SpecExtLists == {<<>>, <<"a">>}

SpecProfiles ==
    { [settings |-> Structured("s-remote"), keybindings |-> Structured("k-remote"),
       extensions |-> x] : x \in SpecExtLists }

\* the config files of a directory: "both", "settings" (no keybindings.json) or "none"
DirFiles(dir, which, tag) ==
    (IF which \in {"both", "settings"}
     THEN {[path |-> dir \o <<"settings.json">>, text |-> Text("s-" \o tag, TRUE)]}
     ELSE {})
    \cup
    (IF which = "both"
     THEN {[path |-> dir \o <<"keybindings.json">>, text |-> Text("k-" \o tag, TRUE)]}
     ELSE {})

FsOf(entries) ==
    [q \in {e.path : e \in entries} |-> (CHOOSE e \in entries : e.path = q).text]

UserDir(h, appName) == BaseFolder(h) \o <<appName, "User">>

Layouts(h, appName) ==
    { FsOf(DirFiles(UserDir(h, appName), d, "local")
           \cup DirFiles(UserDir(h, appName) \o <<"profiles", "p1">>, p, "p1")
           \cup DirFiles(CustomDir, "both", "custom"))
      : d \in {"both", "settings", "none"}, p \in {"both", "none"} }

Init ==
    /\ host = LinuxHost
    /\ envAppName = <<"Visual", "Studio", "Code">>
    /\ files \in Layouts(host, AppNameOf(envAppName))
    /\ wsUri \in WsUris
    /\ installed \in {{}, {"b"}}
    /\ excludeList \in ExcludeLists
    /\ confirmBeforeSync \in BOOLEAN
    /\ manualPaths = [settings |-> <<>>, keybindings |-> <<>>]
    /\ inst = NoInstance
    /\ pc = "idle"
    /\ op = NoOp
    /\ loc = NoLoc
    /\ inflight = {}
    /\ log = <<>>
    /\ result = Res("")

Next ==
    \/ \E readOk \in BOOLEAN, pickS \in {<<>>, ManualChoice("settings")},
          pickK \in {<<>>, ManualChoice("keybindings")} : Initialize(readOk, pickS, pickK)
    \/ \E profileId \in ProfileIds \cup {""} : SwitchProfile(profileId)
    \/ \E detectOk, readS, readK \in BOOLEAN : GetActiveProfile(detectOk, readS, readK)
    \/ \E profile \in SpecProfiles, okS, okK \in BOOLEAN : UpdateLocalProfile(profile, okS, okK)
    \/ \E okS, okK \in BOOLEAN : RepeatUpdateLocalProfile(okS, okK)
    \/ \E action \in ConfirmAnswers : AnswerConfirm(action)
    \/ CloseDetails
    \/ \E ok \in BOOLEAN : SettleAction(ok)
    \/ \E reload \in ReloadAnswers : AnswerReload(reload)
    \/ Dismiss

Spec == Init /\ [][Next]_vars

(***************************************************************************)
(* SpecRoundTrip: the same sessions, in which the snapshot captured by     *)
(* getActiveProfile is handed back to updateLocalProfile.                  *)
(***************************************************************************)
NextRoundTrip ==
    \/ \E readOk \in BOOLEAN, pickS \in {<<>>, ManualChoice("settings")},
          pickK \in {<<>>, ManualChoice("keybindings")} : Initialize(readOk, pickS, pickK)
    \/ \E detectOk, readS, readK \in BOOLEAN : GetActiveProfile(detectOk, readS, readK)
    \/ \E okS, okK \in BOOLEAN : UpdateLocalProfileFromCapture(okS, okK)
    \/ Dismiss

SpecRoundTrip == Init /\ [][NextRoundTrip]_vars

(***************************************************************************)
(* SpecLocator: findConfigFile on its own, for every host, application,    *)
(* profile id and file, on every set of existing candidate files.          *)
(***************************************************************************)
LocatorProfileIds == {None, "", DefaultProfileId, "p1"}

CandidatePaths(h, appName) ==
    UNION { Range(DefaultPaths(h, appName, ConfigFiles[t]))
            \cup {ProfilePath(h, appName, "p1", ConfigFiles[t])} : t \in DOMAIN ConfigFiles }

InitLocator ==
    /\ host \in Hosts
    /\ envAppName \in EnvAppNames
    /\ \E present \in SUBSET CandidatePaths(host, AppNameOf(envAppName)) :
          files = [q \in present |-> Text("s-local", TRUE)]
    /\ wsUri = ""
    /\ installed = {}
    /\ excludeList = <<>>
    /\ confirmBeforeSync = TRUE
    /\ manualPaths = [settings |-> <<>>, keybindings |-> <<>>]
    /\ inst = NoInstance
    /\ pc = "idle"
    /\ op = NoOp
    /\ loc = NoLoc
    /\ inflight = {}
    /\ log = <<>>
    /\ result = Res("")

CallFindConfigFile(file, profileId) ==
    /\ pc = "idle"
    /\ LET f == findConfigFile(host, files, AppNameOf(envAppName), file, profileId) IN
       /\ op' = [Op("findConfigFile", NoProfile) EXCEPT !.file = file, !.profileId = profileId]
       /\ log' = Probes(f.probed, files)
       /\ result' = [Res(IF f.found THEN "ok" ELSE "error") EXCEPT !.path = f.path]
    /\ pc' = "done"
    /\ UNCHANGED <<env, files, installed, inst, loc, inflight>>

NextLocator ==
    \/ \E t \in DOMAIN ConfigFiles, profileId \in LocatorProfileIds :
          CallFindConfigFile(ConfigFiles[t], profileId)
    \/ Dismiss

SpecLocator == InitLocator /\ [][NextLocator]_vars

(***************************************************************************)
(* SpecDetector: getActiveProfileInfo on its own, for every host, with     *)
(* storage.json absent or holding any of the descriptor texts below, with  *)
(* no workspace folder, a workspace the descriptor knows, or another one.  *)
(***************************************************************************)
DetectorUris == {None, "file:///w1", "file:///w2"}

ProfileTables ==
    { [has |-> FALSE, isArray |-> TRUE, list |-> <<>>],
      [has |-> TRUE, isArray |-> FALSE, list |-> <<>>],
      [has |-> TRUE, isArray |-> TRUE, list |-> <<>>],
      [has |-> TRUE, isArray |-> TRUE, list |-> <<[location |-> "p1", name |-> "Work"]>>],
      [has |-> TRUE, isArray |-> TRUE, list |-> <<[location |-> "p1", name |-> ""]>>],
      [has |-> TRUE, isArray |-> TRUE,
       list |-> <<[location |-> "p2", name |-> "Two"], [location |-> "p1", name |-> "Work"]>>] }

NotAnObject ==
    [Descriptor(FALSE, [u \in WsUris |-> ""], FALSE, <<>>) EXCEPT !.isObject = FALSE]

DetectorDescriptors ==
    { [Descriptor(hasWs, [u \in WsUris |-> a], t.has, t.list) EXCEPT
           !.profilesIsArray = t.isArray]
      : hasWs \in BOOLEAN, a \in {"", "p1", DefaultProfileId}, t \in ProfileTables }
    \cup {NotAnObject}

DetectorTexts == {Text(d, FALSE) : d \in DetectorDescriptors} \cup {Garbage}

InitDetector ==
    /\ host \in Hosts
    /\ envAppName = <<"Visual", "Studio", "Code">>
    /\ \/ files = <<>>
       \/ \E text \in DetectorTexts :
             files = [q \in {getStoragePath(host, AppNameOf(envAppName))} |-> text]
    /\ wsUri \in DetectorUris
    /\ installed = {}
    /\ excludeList = <<>>
    /\ confirmBeforeSync = TRUE
    /\ manualPaths = [settings |-> <<>>, keybindings |-> <<>>]
    /\ inst = NoInstance
    /\ pc = "idle"
    /\ op = NoOp
    /\ loc = NoLoc
    /\ inflight = {}
    /\ log = <<>>
    /\ result = Res("")

\* getActiveProfileInfo(appName); readOk: whether readFile succeeds
CallGetActiveProfileInfo(readOk) ==
    /\ pc = "idle"
    /\ LET appName == AppNameOf(envAppName)
           storagePath == getStoragePath(host, appName)
           exists == pathExists(files, storagePath)
           info == getActiveProfileInfo(host, files, wsUri, appName, readOk)
       IN /\ op' = Op("getActiveProfileInfo", NoProfile)
          /\ log' = <<Ev("probe", "", "", storagePath, exists, 0)>>
                    \o (IF exists THEN <<Ev("read", "storage", "", storagePath, readOk, 0)>>
                        ELSE <<>>)
          /\ result' = IF info = Rejected THEN Res("error")
                       ELSE [Res("ok") EXCEPT !.returned = TRUE,
                                               !.snapshot.sourceProfileId = info.id,
                                               !.snapshot.sourceProfileName = info.name]
    /\ pc' = "done"
    /\ UNCHANGED <<env, files, installed, inst, loc, inflight>>

NextDetector ==
    \/ \E readOk \in BOOLEAN : CallGetActiveProfileInfo(readOk)
    \/ Dismiss

SpecDetector == InitDetector /\ [][NextDetector]_vars

(***************************************************************************)
(* SpecCreate: a session of the stable or the Insiders editor in which the *)
(* instance is made and createNewProfileFromSync is called.  storage.json  *)
(* of the editor is absent or holds one of the texts below.                *)
(***************************************************************************)
CreateTexts ==
    { Garbage,
      Text(NotAnObject, FALSE),
      Text(Descriptor(TRUE, [u \in WsUris |-> ""], FALSE, <<>>), TRUE),
      Text(Descriptor(TRUE, [u \in WsUris |-> ""], TRUE,
                      <<[location |-> "p1", name |-> "Work"]>>), FALSE),
      Text([Descriptor(FALSE, [u \in WsUris |-> ""], TRUE, <<>>) EXCEPT
               !.profilesIsArray = FALSE], FALSE) }

InitCreate ==
    /\ host = LinuxHost
    /\ envAppName \in {<<"Visual", "Studio", "Code">>,
                       <<"Visual", "Studio", "Code", "-", "Insiders">>}
    /\ LET config == FsOf(DirFiles(UserDir(host, AppNameOf(envAppName)), "both", "local")) IN
          \/ files = config
          \/ \E text \in CreateTexts :
                files = WriteFile(config, getStoragePath(host, AppNameOf(envAppName)), text)
    /\ wsUri \in WsUris
    /\ installed \in {{}, {"b"}}
    /\ excludeList = <<>>
    /\ confirmBeforeSync \in BOOLEAN
    /\ manualPaths = [settings |-> <<>>, keybindings |-> <<>>]
    /\ inst = NoInstance
    /\ pc = "idle"
    /\ op = NoOp
    /\ loc = NoLoc
    /\ inflight = {}
    /\ log = <<>>
    /\ result = Res("")

NextCreate ==
    \/ \E readOk \in BOOLEAN : Initialize(readOk, <<>>, <<>>)
    \/ \E profile \in SpecProfiles : CreateNewProfileFromSync(profile)
    \/ \E profileName \in ProfileNames, profileId \in NewIds, okDir, okS, okK \in BOOLEAN :
          AnswerName(profileName, profileId, okDir, okS, okK)
    \/ \E action \in ConfirmAnswers : AnswerConfirm(action)
    \/ CloseDetails
    \/ \E ok \in BOOLEAN : SettleAction(ok)
    \/ \E reload \in ReloadAnswers : AnswerReload(reload)
    \/ \E readOk, writeOk \in BOOLEAN : Register(readOk, writeOk)
    \/ Dismiss

SpecCreate == InitCreate /\ [][NextCreate]_vars

(***************************************************************************)
(* Views of the log                                                        *)
(***************************************************************************)
Has(e) == \E i \in 1..Len(log) : log[i].e = e
Count(e, n) == Cardinality({i \in 1..n : log[i].e = e})
Events(e, kind) == SelectSeq(log, LAMBDA x : x.e = e /\ x.kind = kind)
Ids(evs) == [i \in 1..Len(evs) |-> evs[i].id]
IsPrefix(p, q) == Len(p) <= Len(q) /\ SubSeq(q, 1, Len(p)) = p
Entered == pc # "idle" /\ op.name \in {"installExtensions"} 

\* L: the extensions the command found installed, built-in and excluded ones left out
LocalSet == {id \in op.installed0 : id \notin BuiltinIds /\ id \notin Range(excludeList)}
RemoteSet == Range(loc.remoteList)

(***************************************************************************)
(* C1: installExtensions computes toInstall as exactly the identifiers of  *)
(* R not in L and toDelete as exactly the identifiers of L not in R; when  *)
(* L and R are equal as sets it issues no install and no uninstall, shows  *)
(* neither the confirmation nor the reload prompt, reports "already in     *)
(* sync" and returns.                                                      *)
(***************************************************************************)
C1_DeltaIsSetDifference ==
    Entered =>
        /\ Range(loc.toInstall) = RemoteSet \ LocalSet
        /\ Range(loc.toDelete) = LocalSet \ RemoteSet
        /\ (LocalSet = RemoteSet) =>
              /\ pc = "done"
              /\ Has("inSync")
              /\ ~Has("issue") /\ ~Has("confirmPrompt") /\ ~Has("reloadPrompt")
              /\ installed = op.installed0

C1_Witness ==
    /\ Entered /\ pc = "done"
    /\ loc.remoteList = <<"b", "a">>
    /\ LocalSet = {"a", "b"}
    /\ Has("inSync")

(***************************************************************************)
(* C3: in one installExtensions call every uninstall is issued and settled *)
(* before the first install is issued; uninstalls are issued in local-list *)
(* order and installs in remote-list order; never are two commands in      *)
(* flight together.                                                        *)
(***************************************************************************)
C3_UninstallsThenInstallsInOrder ==
    Entered =>
        /\ Cardinality(inflight) <= 1
        /\ \A i \in 1..Len(log) :
              log[i].e = "issue" =>
                 /\ Count("issue", i - 1) = Count("settle", i - 1)
                 /\ log[i].kind = "install" =>
                       Ids(SelectSeq(SubSeq(log, 1, i - 1),
                                     LAMBDA x : x.e = "settle" /\ x.kind = "uninstall"))
                       = SelectSeq(loc.localList, LAMBDA id : id \notin RemoteSet)
        /\ IsPrefix(Ids(Events("issue", "uninstall")),
                    SelectSeq(loc.localList, LAMBDA id : id \notin RemoteSet))
        /\ IsPrefix(Ids(Events("issue", "install")),
                    SelectSeq(loc.remoteList, LAMBDA id : id \notin LocalSet))

C3_Witness ==
    /\ Entered /\ pc = "done"
    /\ Len(Events("settle", "uninstall")) >= 2
    /\ Len(Events("settle", "install")) >= 2

(***************************************************************************)
(* C4: a failing install/uninstall does not stop the batch: once the batch *)
(* has started, every action of it is attempted whatever failed before,    *)
(* and installExtensions returns normally.                                 *)
(***************************************************************************)
C4_FailureDoesNotStopBatch ==
    (Entered /\ Has("issue")) =>
        /\ pc \in {"await", "reload", "done"}
        /\ pc = "await" => Count("issue", Len(log)) = loc.idx
        /\ pc \in {"reload", "done"} =>
              /\ Count("issue", Len(log)) = Len(loc.toDelete) + Len(loc.toInstall)
              /\ Count("settle", Len(log)) = Len(loc.toDelete) + Len(loc.toInstall)
        /\ pc = "done" => result.status = "ok"

C4_Witness ==
    /\ Entered /\ pc = "done"
    /\ Len(loc.toDelete) + Len(loc.toInstall) >= 3
    /\ Cardinality({i \in 1..Len(log) : log[i].e = "settle" /\ ~log[i].ok}) = 1
    /\ \E i \in 1..Len(log) : log[i].e = "settle" /\ ~log[i].ok /\ log[i].kind = "uninstall"
    /\ Cardinality({i \in 1..Len(log) : log[i].e = "settle" /\ log[i].ok})
         = Len(loc.toDelete) + Len(loc.toInstall) - 1

(***************************************************************************)
(* C5: with confirmBeforeSync enabled and a non-empty delta, an install or *)
(* uninstall is issued only after the confirmation prompt was answered     *)
(* "Yes"; after any other answer no action is issued and no reload prompt  *)
(* is shown, and "Show Details" ends the call after the detail view.       *)
(***************************************************************************)
ConfirmAnswer ==
    IF Has("confirmAnswer")
    THEN (CHOOSE x \in Range(log) : x.e = "confirmAnswer").kind ELSE "<unanswered>"

C5_OnlyYesProceeds ==
    (Entered /\ confirmBeforeSync) =>
        /\ \A i \in 1..Len(log) :
              log[i].e = "issue" =>
                 \E j \in 2..(i - 1) : /\ log[j].e = "confirmAnswer" /\ log[j].kind = "Yes"
                                      /\ log[j - 1].e = "confirmPrompt"
        /\ (Has("confirmAnswer") /\ ConfirmAnswer # "Yes") =>
              /\ ~Has("issue") /\ ~Has("reloadPrompt")
              /\ installed = op.installed0
              /\ pc \in {"details", "done"}
              /\ pc = "details" => ConfirmAnswer = "Show Details"
              /\ ConfirmAnswer = "Show Details" => log[Len(log)].e = "detailsPrompt"
        /\ (Len(loc.toInstall) + Len(loc.toDelete) > 0) => Has("confirmPrompt")

C5_Witness ==
    /\ Entered /\ confirmBeforeSync /\ pc = "done"
    /\ ConfirmAnswer = "Show Details"
    /\ Has("detailsPrompt")
    /\ Len(loc.toInstall) > 0 /\ Len(loc.toDelete) > 0

(***************************************************************************)
(* C2: updateLocalProfile(S) called twice in succession with no local      *)
(* change in between: the second call's delta is (empty, empty).           *)
(***************************************************************************)
Repeated == pc # "idle" /\ op.name = "updateLocalProfile" /\ op.repeat /\ loc.idx >= 1
Hidden(id) == id \in BuiltinIds \/ id \in Range(excludeList)

C6_DeclineLeavesLocalStateUntouched ==
    (pc = "done" /\ op.name \in {"updateLocalProfile", "installExtensions"}
       /\ Has("confirmAnswer") /\ ConfirmAnswer \in {"Cancel", None}) =>
        /\ files = op.files0
        /\ installed = op.installed0

(***************************************************************************)
(* C7: getActiveProfile and updateLocalProfile read and write the config   *)
(* files of the profile that is active when the call starts, not those of  *)
(* an identity cached earlier.                                             *)
(***************************************************************************)
ActiveAtCall ==
    IF op.name = "getActiveProfile" THEN inst.activeProfileId
    ELSE getActiveProfileInfo(host, op.files0, wsUri, inst.appName, TRUE).id

C7_PathsOfProfileActiveAtCall ==
    (pc # "idle" /\ op.name \in {"getActiveProfile", "updateLocalProfile"}
       /\ manualPaths.settings = <<>>) =>
        \A i \in 1..Len(log) :
           (log[i].e \in {"read", "write"} /\ log[i].ok) =>
              log[i].path = findConfigFile(host, op.files0, inst.appName,
                                           ConfigFiles[log[i].kind], ActiveAtCall).path

(***************************************************************************)
(* C8: in updateLocalProfile a failure to locate or write a config file    *)
(* ends the call with an error: after a failed settings step nothing is    *)
(* written and installExtensions is not called; after a failed keybindings *)
(* step installExtensions is not called and the settings file stays as     *)
(* written.                                                                *)
(***************************************************************************)
Wrote(t) == \E i \in 1..Len(log) : log[i].e = "write" /\ log[i].kind = t /\ log[i].ok
Tried(t) == \E i \in 1..Len(log) : log[i].e = "write" /\ log[i].kind = t
WrittenPath(t) == (CHOOSE x \in Range(log) : x.e = "write" /\ x.kind = t).path
NotReconciled ==
    /\ loc = NoLoc /\ installed = op.installed0
    /\ ~Has("inSync") /\ ~Has("confirmPrompt") /\ ~Has("issue")

C8_WriteFailureAbortsWithoutRollback ==
    (pc # "idle" /\ op.name = "updateLocalProfile") =>
        /\ ~Wrote("settings") =>
              /\ pc = "done" /\ result.status = "error"
              /\ ~Tried("keybindings")
              /\ files = op.files0
              /\ NotReconciled
        /\ (Wrote("settings") /\ ~Wrote("keybindings")) =>
              /\ pc = "done" /\ result.status = "error"
              /\ NotReconciled
              /\ files = [op.files0 EXCEPT ![WrittenPath("settings")] =
                                             WriteContent(op.profile.settings)]
        /\ (Wrote("settings") /\ Wrote("keybindings")) => loc.idx >= 1

C8_Witness ==
    /\ pc = "done" /\ op.name = "updateLocalProfile"
    /\ Wrote("settings") /\ Tried("keybindings") /\ ~Wrote("keybindings")
    /\ files # op.files0
    /\ result.status = "error"

(***************************************************************************)
(* C9: when locating, reading or parsing the settings or the keybindings   *)
(* file fails in getActiveProfile, no snapshot is returned: the caller     *)
(* never receives a profile whose settings or keybindings are missing.     *)
(***************************************************************************)
C9_FailedCaptureReturnsNoSnapshot ==
    (pc = "done" /\ op.name = "getActiveProfile") =>
        /\ Has("error") => ~result.returned
        /\ result.returned => result.snapshot.settings.ok /\ result.snapshot.keybindings.ok

(***************************************************************************)
(* C10: for a profile id that is neither null/empty nor the default        *)
(* sentinel, getConfigPaths puts User/profiles/<id>/<file> first and       *)
(* findConfigFile probes it before every default path; for a null, empty   *)
(* or default id no candidate is profile-scoped.                           *)
(***************************************************************************)
IsProfileScoped(path) ==
    \E j \in 2..Len(path) : path[j] = "profiles" /\ path[j - 1] = "User"

C10_ProfilePathProbedFirst ==
    (pc = "done" /\ op.name = "findConfigFile") =>
        LET paths == getConfigPaths(host, AppNameOf(envAppName), op.file, op.profileId)
            named == op.profileId \notin {None, "", DefaultProfileId}
        IN /\ Len(log) >= 1
           /\ IsPrefix([i \in 1..Len(log) |-> log[i].path], paths)
           /\ named =>
                 /\ IsProfileScoped(paths[1])
                 /\ paths[1][Len(paths[1]) - 1] = op.profileId
                 /\ paths[1][Len(paths[1])] = op.file
                 /\ log[1].path = paths[1]
                 /\ \A i \in 2..Len(paths) : ~IsProfileScoped(paths[i])
           /\ ~named => \A i \in 1..Len(paths) : ~IsProfileScoped(paths[i])

C10_Witness ==
    /\ pc = "done" /\ op.name = "findConfigFile"
    /\ op.profileId = "p1"
    /\ Len(log) >= 2
    /\ ~log[1].ok /\ log[Len(log)].ok
    /\ result.status = "ok"

(***************************************************************************)
(* C11: findConfigFile probes the candidates in list order and returns the *)
(* first one that exists without probing any later one; it fails with      *)
(* FileNotFound exactly when no candidate exists; probing changes no file. *)
(***************************************************************************)
C11_FirstExistingCandidateWins ==
    (pc = "done" /\ op.name = "findConfigFile") =>
        LET paths == getConfigPaths(host, AppNameOf(envAppName), op.file, op.profileId)
            n == Len(log)
        IN /\ n >= 1 /\ n <= Len(paths)
           /\ \A i \in 1..n : /\ log[i].e = "probe"
                               /\ log[i].path = paths[i]
                               /\ log[i].ok = pathExists(files, paths[i])
           /\ \A i \in 1..(n - 1) : ~log[i].ok
           /\ result.status \in {"ok", "error"}
           /\ result.status = "ok" => log[n].ok /\ result.path = paths[n]
           /\ (result.status = "error") = (\A i \in 1..Len(paths) : ~pathExists(files, paths[i]))
           /\ result.status = "error" => n = Len(paths)
           /\ files = op.files0

C11_Witness ==
    /\ pc = "done" /\ op.name = "findConfigFile"
    /\ result.status = "ok"
    /\ LET paths == getConfigPaths(host, AppNameOf(envAppName), op.file, op.profileId) IN
          /\ Len(log) = 2 /\ Len(paths) = 4
          /\ pathExists(files, paths[3]) /\ paths[3] # paths[2]

(***************************************************************************)
(* C12: getActiveProfileInfo never fails.  With storage.json absent,       *)
(* unreadable or unparseable, without a workspaces mapping, without a      *)
(* workspace folder, or without an association for the workspace, it       *)
(* returns {id: "__default__profile__", name: "Default"}; it returns       *)
(* another identity only when the workspace has a recorded association.    *)
(***************************************************************************)
Detected == [id |-> result.snapshot.sourceProfileId, name |-> result.snapshot.sourceProfileName]

StorageText == files[getStoragePath(host, AppNameOf(envAppName))]

\* storage.json holds an object whose workspaces mapping has a non-empty
\* profile id for the current workspace
AssociationRecorded ==
    /\ getStoragePath(host, AppNameOf(envAppName)) \in DOMAIN files
    /\ StorageText.ok
    /\ StorageText.val.isObject /\ StorageText.val.hasWs
    /\ wsUri # None /\ wsUri # ""
    /\ wsUri \in DOMAIN StorageText.val.ws
    /\ StorageText.val.ws[wsUri] # ""

C12_DetectionNeverFails ==
    (pc = "done" /\ op.name = "getActiveProfileInfo") =>
        /\ result.status = "ok" /\ result.returned
        /\ files = op.files0
        /\ ~AssociationRecorded => Detected = DefaultIdentity
        /\ (\E i \in 1..Len(log) : log[i].e = "read" /\ ~log[i].ok) => Detected = DefaultIdentity
        /\ Detected # DefaultIdentity =>
              /\ AssociationRecorded
              /\ Detected.id = StorageText.val.ws[wsUri]

C12_Witness ==
    /\ pc = "done" /\ op.name = "getActiveProfileInfo"
    /\ AssociationRecorded
    /\ StorageText.val.hasProfiles /\ ~StorageText.val.profilesIsArray
    /\ Detected = DefaultIdentity
    /\ result.status = "ok"

(***************************************************************************)
(* C13: after a batch the reload prompt is shown once, after the last      *)
(* action has settled, when at least one action succeeded, and not at all  *)
(* when every action failed; the window is reloaded only on the answer     *)
(* "Reload".                                                               *)
(***************************************************************************)
Succeeded(n) == \E i \in 1..n : log[i].e = "settle" /\ log[i].ok

C13_ReloadPromptOnceAfterSuccess ==
    Entered =>
        LET total == Len(loc.toDelete) + Len(loc.toInstall) IN
        /\ Count("reloadPrompt", Len(log)) <= 1
        /\ \A i \in 1..Len(log) :
              /\ log[i].e = "reloadPrompt" =>
                    /\ Count("issue", i - 1) = total
                    /\ Count("settle", i - 1) = total
                    /\ Succeeded(i - 1)
                    /\ \A j \in (i + 1)..Len(log) : log[j].e \notin {"issue", "settle"}
              /\ log[i].e = "reloadWindow" =>
                    /\ i >= 3
                    /\ log[i - 1].e = "reloadAnswer" /\ log[i - 1].kind = "Reload"
                    /\ log[i - 2].e = "reloadPrompt"
              /\ (log[i].e = "reloadAnswer" /\ log[i].kind # "Reload") => ~Has("reloadWindow")
        /\ (pc \in {"reload", "done"} /\ Has("issue")) =>
              (Has("reloadPrompt") = Succeeded(Len(log)))
        /\ pc = "reload" => log[Len(log)].e = "reloadPrompt"
        /\ ~Has("issue") => ~Has("reloadPrompt")

C13_Witness ==
    /\ Entered /\ pc = "done"
    /\ Has("reloadWindow")
    /\ \E i \in 1..Len(log) : log[i].e = "settle" /\ ~log[i].ok
    /\ Count("settle", Len(log)) >= 2

(***************************************************************************)
(* C14: an identifier of excludeExtensions is in neither toInstall nor     *)
(* toDelete, so installExtensions never installs and never uninstalls an   *)
(* excluded extension; nor does it uninstall a built-in one.               *)
(***************************************************************************)
C14_ExcludedNeverInDelta ==
    Entered =>
        /\ \A id \in Range(excludeList) :
              /\ id \notin Range(loc.toInstall)
              /\ id \notin Range(loc.toDelete)
              /\ \A i \in 1..Len(log) : log[i].e = "issue" => log[i].id # id
        /\ \A id \in BuiltinIds :
              /\ id \notin Range(loc.toDelete)
              /\ \A i \in 1..Len(log) :
                    (log[i].e = "issue" /\ log[i].kind = "uninstall") => log[i].id # id

(***************************************************************************)
(* C15: in createNewProfileFromSync a failure to register the new profile  *)
(* in storage.json (absent, unparseable, not writable) is logged as a      *)
(* warning and not escalated: the call returns normally, and the profile   *)
(* directory with the settings and keybindings files written before still  *)
(* exists unchanged.                                                       *)
(***************************************************************************)
Creating == pc # "idle" /\ op.name = "createNewProfileFromSync"
RegistrationFailed == \E i \in 1..Len(log) : log[i].e = "register" /\ ~log[i].ok

C15_RegistrationFailureNotEscalated ==
    (Creating /\ RegistrationFailed) =>
        LET dir == NewProfileDir(op.profileId) IN
        /\ pc = "done"
        /\ result.status = "ok"
        /\ Has("warn") /\ ~Has("error")
        /\ dir \in DOMAIN files /\ files[dir] = Directory
        /\ dir \o <<"settings.json">> \in DOMAIN files
        /\ files[dir \o <<"settings.json">>] = WriteContent(op.profile.settings)
        /\ dir \o <<"keybindings.json">> \in DOMAIN files
        /\ files[dir \o <<"keybindings.json">>] = WriteContent(op.profile.keybindings)

C15_Witness ==
    /\ Creating /\ pc = "done" /\ RegistrationFailed
    /\ getStoragePath(host, CreateAppName(envAppName)) \in DOMAIN files
    /\ files[getStoragePath(host, CreateAppName(envAppName))].ok
    /\ Has("reloadAnswer")
    /\ result.status = "ok"

(***************************************************************************)
(* C16: a settings file with a comment, read by readConfigFile and written *)
(* back by writeConfigFile: the read succeeds, the file written is strict  *)
(* JSON indented by two spaces holding the same mapping, and the comment   *)
(* is gone.                                                                *)
(***************************************************************************)
AppliesCapture == pc # "idle" /\ op.name = "updateLocalProfile" /\ op.captured # <<>>

ReconcileEvents == {"inSync", "confirmPrompt", "confirmAnswer", "detailsPrompt", "issue",
                    "settle", "reloadPrompt", "reloadAnswer", "reloadWindow"}
Registered == \E i \in 1..Len(log) : log[i].e = "register" /\ log[i].ok
NameGiven == Len(log) >= 2 /\ log[2].kind \notin {None, ""}

C17_CreateStepsInOrder ==
    Creating =>
        /\ log[1].e = "namePrompt"
        /\ Len(log) >= 2 => log[2].e = "nameAnswer"
        /\ (pc = "name") = (Len(log) = 1)
        /\ (Len(log) >= 2 /\ ~NameGiven) =>
              /\ pc = "done" /\ result.status = "ok"
              /\ files = op.files0 /\ installed = op.installed0
              /\ \A i \in 3..Len(log) : log[i].e = "cancelled"
        /\ NameGiven =>
              /\ log[3].e = "mkdir"
              /\ \A i \in 4..Len(log) :
                    /\ log[i].e # "mkdir"
                    /\ log[i].e = "write" =>
                          /\ \A j \in 3..(i - 1) : log[j].ok
                          /\ i = IF log[i].kind = "settings" THEN 4 ELSE 5
                    /\ log[i].e \in ReconcileEvents =>
                          /\ i >= 6
                          /\ log[4].e = "write" /\ log[4].kind = "settings" /\ log[4].ok
                          /\ log[5].e = "write" /\ log[5].kind = "keybindings" /\ log[5].ok
                    /\ log[i].e = "register" =>
                          /\ i >= 7
                          /\ log[6].e \in ReconcileEvents
                          /\ Count("issue", i - 1) = Count("settle", i - 1)
                          /\ \A j \in (i + 1)..Len(log) : log[j].e \notin ReconcileEvents
              /\ pc \in {"confirm", "details", "await", "reload", "register"} =>
                    /\ ~Has("register")
                    /\ Range(loc.localList) = LocalSet
                    /\ loc.remoteList = op.profile.extensions
        /\ Registered =>
              LET storagePath == (CHOOSE x \in Range(log) : x.e = "register").path
                  old == op.files0[storagePath].val
                  new == files[storagePath].val
              IN /\ new.profiles = (IF old.hasProfiles THEN old.profiles ELSE <<>>)
                                    \o <<[location |-> op.profileId, name |-> op.profileName]>>
                 /\ new.hasProfiles /\ new.profilesIsArray /\ new.isObject
                 /\ new.hasWs = old.hasWs /\ new.ws = old.ws
                 /\ \A q \in DOMAIN op.files0 \ {storagePath} : files[q] = op.files0[q]

C17_Witness ==
    /\ Creating /\ pc = "done" /\ Registered
    /\ Has("settle")
    /\ Len(files[getStoragePath(host, CreateAppName(envAppName))].val.profiles) = 2

(***************************************************************************)
(* C18: with manual paths recorded by initialize, updateLocalProfile       *)
(* writes the files readConfigFile reads (the manually selected ones); it  *)
(* neither writes elsewhere nor fails because it located the files         *)
(* automatically.                                                          *)
(***************************************************************************)
C18_ManualPathsAreWritten ==
    (pc # "idle" /\ op.name = "updateLocalProfile" /\ manualPaths.settings # <<>>) =>
        /\ \A i \in 1..Len(log) :
              log[i].e = "write" => log[i].path = manualPaths[log[i].kind]
        /\ (pc = "done" /\ result.status = "error") =>
              \E i \in 1..Len(log) : log[i].e = "write" /\ ~log[i].ok

(***************************************************************************)
(* C19: in one installExtensions call every identifier is the subject of   *)
(* at most one command: none is both uninstalled and installed, none is    *)
(* installed or uninstalled twice, also when the remote list repeats an    *)
(* identifier.                                                             *)
(***************************************************************************)
C19_AtMostOneActionPerId ==
    Entered =>
        \A id \in Range(ExtOrder) :
           /\ Cardinality({i \in 1..Len(log) : log[i].e = "issue" /\ log[i].id = id}) <= 1
           /\ Cardinality({i \in 1..Len(loc.toInstall) : loc.toInstall[i] = id})
              + Cardinality({i \in 1..Len(loc.toDelete) : loc.toDelete[i] = id}) <= 1

(***************************************************************************)
(* C20: the progress increments reported during one batch of total         *)
(* commands sum to 100 percent after the last one and never to more        *)
(* before; over the integers, the sum of increment * total is 100 * total. *)
(***************************************************************************)
RECURSIVE ReportedTimesTotal(_)
ReportedTimesTotal(n) ==
    IF n = 0 THEN 0
    ELSE ReportedTimesTotal(n - 1)
         + (IF log[n].e = "issue" THEN IncrementTimesTotal(log[n].n) ELSE 0)

\* stated for remote lists without repetition, where total counts each
\* identifier once
C20_ProgressSumsToHundred ==
    (Entered /\ Has("issue") /\ Cardinality(RemoteSet) = Len(loc.remoteList)) =>
        LET total == Len(loc.toDelete) + Len(loc.toInstall) IN
        /\ ReportedTimesTotal(Len(log)) <= 100 * total
        /\ pc \in {"reload", "done"} => ReportedTimesTotal(Len(log)) = 100 * total

(***************************************************************************)
(* C21: createNewProfileFromSync creates the profile directory and         *)
(* registers the profile under the application identity initialize         *)
(* derived (this.appName), the one findConfigFile and getActiveProfileInfo *)
(* are called with: the new profile lies in, and is registered with, the   *)
(* configuration directory of the editor it was created in.                *)
(***************************************************************************)
C21_CreatedUnderInstanceAppName ==
    Creating =>
        \A i \in 1..Len(log) :
           /\ (log[i].e = "mkdir" /\ log[i].ok) =>
                 log[i].path = BaseFolder(host)
                               \o <<inst.appName, "User", "profiles", log[i].id>>
           /\ (log[i].e = "write" /\ log[i].kind = "settings") =>
                 log[i].path = ProfilePath(host, inst.appName, op.profileId, "settings.json")
           /\ (log[i].e = "write" /\ log[i].kind = "keybindings") =>
                 log[i].path = ProfilePath(host, inst.appName, op.profileId, "keybindings.json")
           /\ log[i].e = "register" => log[i].path = getStoragePath(host, inst.appName)

====
